---- MODULE Spec2Model ----
(***************************************************************************)
(* arcor2: the action-graph <-> script compiler of generate_source.py.     *)
(*                                                                         *)
(* Script Emitter   : program_src / add_logic_to_loop                      *)
(* Script Recoverer : get_logic_from_source                                *)
(*                                                                         *)
(* Strings whose characters matter (object ids, class names, variable      *)
(* names) are sequences of one-character strings, so that convert_cc and   *)
(* fix_object_name are computed character by character.  Action ids and    *)
(* method names are identifiers and are kept atomic.  An action type       *)
(* "<object-id>/<method>" is the record [obj, method] that                 *)
(* type.split("/") yields.                                                 *)
(***************************************************************************)
EXTENDS Integers, Sequences, FiniteSets, TLC

\* ------------------------------------------------------------------ bounds

\* largest number of actions in a project
MaxActions == 2

\* largest number of statements in a hand-edited loop body
MaxStmts == 3

\* the chain walk of add_logic_to_loop is cut off after this many calls
MaxLoop == MaxActions + 2

ActName == <<"a1", "a2", "a3", "a4">>

ActionIds == {ActName[i] : i \in 1..MaxActions}

\* an action id no project declares
UnknownId == "zz"

None == "None"

\* ------------------------------------------------------------ data model

\* ActionIOEnum sentinels
FIRST == "start"

LAST == "end"

\* ------------------------------------------------- helpers.py: convert_cc

UpperChars == <<"A", "B", "R">>

LowerChars == <<"a", "b", "r">>

IsUpper(c) == \E i \in 1..Len(UpperChars) : UpperChars[i] = c

IsLower(c) == c \in {"a", "b", "c", "e", "o", "r", "s", "t", "u", "x"}

IsDigit(c) == c \in {"0", "1"}

\* str.lower() on one character
ToLower(c) ==
    IF IsUpper(c)
    THEN LowerChars[CHOOSE i \in 1..Len(UpperChars) : UpperChars[i] = c]
    ELSE c

\* end of the run [a-z]+ that starts at position i
RECURSIVE LowerRunEnd(_, _)
LowerRunEnd(s, i) ==
    IF i + 1 <= Len(s) /\ IsLower(s[i + 1]) THEN LowerRunEnd(s, i + 1) ELSE i

\* _first_cap_re.sub(r'\1_\2', s), scanning from position i:
\* _first_cap_re = '(.)([A-Z][a-z]+)'
RECURSIVE first_cap_sub(_, _)
first_cap_sub(s, i) ==
    IF i > Len(s) THEN <<>>
    ELSE IF i + 2 <= Len(s) /\ IsUpper(s[i + 1]) /\ IsLower(s[i + 2])
         THEN LET e == LowerRunEnd(s, i + 2)
              IN  <<s[i], "_">> \o SubSeq(s, i + 1, e) \o first_cap_sub(s, e + 1)
         ELSE <<s[i]>> \o first_cap_sub(s, i + 1)

\* _all_cap_re.sub(r'\1_\2', s), scanning from position i:
\* _all_cap_re = '([a-z0-9])([A-Z])'
RECURSIVE all_cap_sub(_, _)
all_cap_sub(s, i) ==
    IF i > Len(s) THEN <<>>
    ELSE IF i + 1 <= Len(s) /\ (IsLower(s[i]) \/ IsDigit(s[i])) /\ IsUpper(s[i + 1])
         THEN <<s[i], "_", s[i + 1]>> \o all_cap_sub(s, i + 2)
         ELSE <<s[i]>> \o all_cap_sub(s, i + 1)

\* camel case to snake case (imported by generate_source.py as convert_cc)
convert_cc(s) ==
    LET s1 == first_cap_sub(s, 1)
        s2 == all_cap_sub(s1, 1)
    IN  [i \in 1..Len(s2) |-> ToLower(s2[i])]

\* object id -> script variable name
fix_object_name(object_id) ==
    LET c == convert_cc(object_id)
    IN  [i \in 1..Len(c) |-> IF c[i] = " " THEN "_" ELSE c[i]]

\* a name the parser reads back as one Name node
IsIdentifier(s) ==
    /\ Len(s) > 0
    /\ ~IsDigit(s[1])
    /\ \A i \in 1..Len(s) : IsLower(s[i]) \/ IsUpper(s[i]) \/ IsDigit(s[i]) \/ s[i] = "_"

\* ------------------------------------------------ scenes and action types

Robot == <<"R", "o", "b", "o", "t">>

BoxA == <<"B", "o", "x", "A">>

Resources == <<"R", "e", "s", "o", "u", "r", "c", "e", "s">>

\* the set handed to program_src as built_in_objects
built_in_objects == {Robot}

obj_r == <<"r">>

obj_a_space_b == <<"a", " ", "b">>

obj_aB == <<"a", "B">>

obj_a_b == <<"a", "_", "b">>

ActType(o, m) == [obj |-> o, method |-> m]

\* A setup is a scene (ordered object instances {id, type}) and the action
\* type given to the i-th action of the project.
Setups == <<
    [scene |-> <<[id |-> obj_r, type |-> Robot]>>,
     typeOf |-> [i \in 1..4 |-> ActType(obj_r, "m1")]],
    [scene |-> <<[id |-> obj_a_space_b, type |-> BoxA]>>,
     typeOf |-> [i \in 1..4 |-> ActType(obj_a_space_b, "m1")]],
    [scene |-> <<[id |-> obj_aB, type |-> Robot], [id |-> obj_r, type |-> BoxA]>>,
     typeOf |-> [i \in 1..4 |-> IF i % 2 = 1 THEN ActType(obj_aB, "m2")
                                             ELSE ActType(obj_r, "m1")]],
    [scene |-> <<[id |-> obj_aB, type |-> BoxA], [id |-> obj_a_b, type |-> BoxA]>>,
     typeOf |-> [i \in 1..4 |-> IF i % 2 = 1 THEN ActType(obj_aB, "m1")
                                             ELSE ActType(obj_a_b, "m1")]]
>>

ActIndex(a) == CHOOSE i \in 1..Len(ActName) : ActName[i] = a

\* Action: id, type, inputs and outputs (lists of ActionIO.default values)
Action(a, t, ins, outs) == [id |-> a, type |-> t, inputs |-> ins, outputs |-> outs]

\* ------------------------------------------------------------ syntax tree

Pass == [node |-> "Pass"]

While == [node |-> "While"]

\* Expr(Call(Attribute(Name(instance), method), keywords=[**res.<attr>]))
MethodCall(instance, method, attr) ==
    [node |-> "Expr", instance |-> instance, method |-> method, attr |-> attr]

\* Expr whose value is not a call of that shape
OtherExpr == [node |-> "Expr", instance |-> <<>>, method |-> None, attr |-> None]

IsMethodCall(n) == n.node = "Expr" /\ n.attr # None

\* a raised exception as the value of an operation
Raise(kind, msg) == [exc |-> kind, msg |-> msg]

IsExc(v) == "exc" \in DOMAIN v

\* Module(body=[FunctionDef main [While True: Pass], If __name__ ...]):
\* the import statements, the body of main and the body of its loop
empty_script_tree == [imports |-> <<>>, main |-> <<While>>, loop |-> <<Pass>>]

SeqContains(s, x) == \E i \in 1..Len(s) : s[i] = x

InsertAt(s, i, x) == SubSeq(s, 1, i - 1) \o <<x>> \o SubSeq(s, i, Len(s))

\* add_import that inserts a new statement without visiting the tree
add_import_AlwaysInsert(tree, module, cls) ==
    [tree EXCEPT !.imports = <<[module |-> module, names |-> <<cls>>]>> \o @]

\* add_import(node, module, cls, try_to_import=False)
add_import(tree, module, cls) ==
    LET done == \E i \in 1..Len(tree.imports) : tree.imports[i].module = module
        visited == [i \in 1..Len(tree.imports) |->
                      IF tree.imports[i].module = module
                         /\ ~SeqContains(tree.imports[i].names, cls)
                      THEN [tree.imports[i] EXCEPT !.names = Append(@, cls)]
                      ELSE tree.imports[i]]
    IN  IF done
        THEN [tree EXCEPT !.imports = visited]
        ELSE [tree EXCEPT !.imports = <<[module |-> module, names |-> <<cls>>]>> \o @]

\* add_cls_inst(node, cls, name)
add_cls_inst(tree, cls, name) ==
    LET imported == \E i \in 1..Len(tree.imports) : SeqContains(tree.imports[i].names, cls)
        same == {i \in 1..Len(tree.main) :
                    tree.main[i].node = "Assign" /\ tree.main[i].target = name}
    IN  IF ~imported THEN Raise("GenerateSourceException", "Class not imported!")
        ELSE IF \E i \in same : tree.main[i].cls # cls
        THEN Raise("GenerateSourceException", "Name already used for instance!")
        ELSE IF same # {} THEN tree
        ELSE [tree EXCEPT !.main =
                <<[node |-> "Assign", target |-> name, cls |-> cls, key |-> <<>>]>> \o @]

\* object_instance_from_res(tree, object_id, cls_name)
object_instance_from_res(tree, object_id, cls_name) ==
    LET assigns == {i \in 1..Len(tree.main) : tree.main[i].node \in {"Assign", "AnnAssign"}}
        last_assign_idx == CHOOSE i \in assigns : \A j \in assigns : j <= i
    IN  IF assigns = {} THEN Raise("GenerateSourceException", "")
        ELSE [tree EXCEPT !.main =
                InsertAt(@, last_assign_idx + 1,
                         [node |-> "AnnAssign", target |-> fix_object_name(object_id),
                          cls |-> cls_name, key |-> object_id])]

\* append_method_call(body, instance, method, [], [keyword(**res.<attr>)])
append_method_call(body, instance, method, attr) ==
    Append(body, MethodCall(instance, method, attr))

\* the module an object type is imported from (program_src, lines 162-165)
TypeModule(type) ==
    IF type \in built_in_objects
    THEN [pkg |-> "arcor2.object_types", sub |-> <<>>]
    ELSE [pkg |-> "object_types.", sub |-> convert_cc(type)]

\* the loop over scene.objects in program_src, from object i on
RECURSIVE add_scene_objects(_, _, _)
add_scene_objects(tree, objects, i) ==
    IF IsExc(tree) \/ i > Len(objects) THEN tree
    ELSE add_scene_objects(
            object_instance_from_res(
                add_import(tree, TypeModule(objects[i].type), objects[i].type),
                objects[i].id, objects[i].type),
            objects, i + 1)

\* program_src up to the call of add_logic_to_loop
script_tree(scn) ==
    LET t1 == add_import(empty_script_tree, [pkg |-> "resources", sub |-> <<>>], Resources)
        t2 == add_cls_inst(t1, Resources, <<"r", "e", "s">>)
    IN  add_scene_objects(t2, scn, 1)

\* tree_to_str: the rendered program, statement by statement
tree_to_str(tree) == [imports |-> tree.imports, main |-> tree.main, lines |-> tree.loop]

NoText == [imports |-> <<>>, main |-> <<>>, lines |-> <<>>]

\* parse(source_code): a call line whose receiver is no identifier is a
\* syntax error; otherwise the tree the text was rendered from
parse(source_code) ==
    IF \E i \in 1..Len(source_code.lines) :
            /\ IsMethodCall(source_code.lines[i])
            /\ ~IsIdentifier(source_code.lines[i].instance)
    THEN Raise("SyntaxError", "invalid syntax")
    ELSE [imports |-> source_code.imports, main |-> source_code.main,
          loop |-> source_code.lines]

\* main_loop_body(tree): the body of the While of main
main_loop_body(tree) ==
    IF \E i \in 1..Len(tree.main) : tree.main[i].node = "While"
    THEN [body |-> tree.loop]
    ELSE Raise("GenerateSourceException", "Main loop not found.")

\* ---------------------------------------------------------------- state

VARIABLES
    actions,          \* the project's actions: id -> Action (the action cache)
    scene,            \* scene.objects
    epc,              \* program_src: "idle", "walk", "done" or "raised"
    eerr,             \* the exception program_src raised
    tree,             \* the script tree program_src builds
    first_action_id,  \* add_logic_to_loop
    last_action_id,   \* add_logic_to_loop
    next_action_id,   \* add_logic_to_loop
    text,             \* what program_src returned
    rpc,              \* get_logic_from_source: "idle", "walk", "done" or "raised"
    rerr,             \* the exception get_logic_from_source raised
    loop,             \* the loop statements get_logic_from_source has read
    loop_len,         \* len(loop)
    node_idx,         \* index of the statement being walked
    found_actions,    \* get_logic_from_source
    last_action,      \* id of last_action, or None
    actions0          \* the action cache when get_logic_from_source was called

\* Object-Type Inspector
VARIABLES
    source,           \* the object-type source: the top-level nodes of its tree
    ipc,              \* check_object_type: "idle", "info", "scan", "done", "raised"
    ierr,             \* the exception the Inspector raised
    obj,              \* what object_type_info returned
    action_attr,      \* get_object_actions
    defs,             \* the FunctionDef nodes the second loop has read, in order
    ret               \* get_object_actions

\* Tree Utility Library, called on a script tree in any order
VARIABLES
    utree,            \* the script tree the calls work on
    uprev,            \* the tree before the last call
    ucall,            \* the last call: its name and arguments
    ures,             \* the exception the last call raised, or NoErr
    uimported,        \* the (module, symbol) pairs add_import has returned for
    ucalls            \* number of calls made

\* the manager node: its globals, the server coroutine of every client
\* connection, the script processes and their reader tasks
VARIABLES
    PROCESS,          \* manager.PROCESS: NoProc or a process
    TASK,             \* manager.TASK: NoProc or the reader task of a process
    CLIENTS,          \* manager.CLIENTS
    procs,            \* process -> its state, output and input
    cpc,              \* client -> where its server coroutine is suspended
    creq,             \* client -> the request its coroutine is handling
    cresp,            \* client -> the result its handler returned
    cwait,            \* client -> the task project_stop waits for
    tpc,              \* task -> where read_proc_stdout is suspended
    tstream,          \* task -> the process whose stdout it awaits a line of
    tev,              \* task -> the project-state events it has broadcast
    nreq              \* number of requests received

\* helpers.server: the coroutine websockets.serve starts for every client
\* connection, with the callbacks and dictionaries it was bound to
VARIABLES
    rpc_dict,         \* the rpc_dict server was bound to
    event_dict,       \* the event_dict server was bound to
    registered,       \* the clients register() has added and unregister() not removed
    conn,             \* client -> where its server coroutine is suspended
    req,              \* client -> the request handed to the RPC handler
    resp,             \* client -> the response about to be sent
    raised,           \* client -> the exception that left the try block
    received,         \* client -> the messages the connection has delivered
    sent,             \* client -> the responses sent on the connection
    unregistered,     \* client -> number of calls of unregister(client)
    nmsg              \* number of messages received

\* the compiler: Script Emitter and Script Recoverer
cvars == <<actions, scene, epc, eerr, tree, first_action_id, last_action_id,
           next_action_id, text, rpc, rerr, loop, loop_len, node_idx,
           found_actions, last_action, actions0>>

ivars == <<source, ipc, ierr, obj, action_attr, defs, ret>>

uvars == <<utree, uprev, ucall, ures, uimported, ucalls>>

mvars == <<PROCESS, TASK, CLIENTS, procs, cpc, creq, cresp, cwait, tpc, tstream,
           tev, nreq>>

svars == <<rpc_dict, event_dict, registered, conn, req, resp, raised, received, sent,
           unregistered, nmsg>>

vars == <<cvars, ivars, uvars, mvars, svars>>

\* what a step of one component leaves alone
outside_compiler == <<ivars, uvars, mvars, svars>>

outside_inspector == <<cvars, uvars, mvars, svars>>

outside_tree == <<cvars, ivars, mvars, svars>>

outside_manager == <<cvars, ivars, uvars, svars>>

outside_server == <<cvars, ivars, uvars, mvars>>

evars == <<epc, eerr, tree, first_action_id, last_action_id, next_action_id, text>>

rvars == <<rpc, rerr, loop, loop_len, node_idx, found_actions, last_action, actions0>>

NoErr == Raise(None, None)

InputOpts == {<<>>, <<FIRST>>} \cup {<<a>> : a \in ActionIds}

OutputOpts == {<<>>, <<LAST>>} \cup {<<a>> : a \in ActionIds}

\* the project of k actions a1..ak with the given types and links
MkActions(k, typeOf, io) ==
    [a \in {ActName[i] : i \in 1..k} |->
        Action(a, typeOf[ActIndex(a)], io[ActIndex(a)][1], io[ActIndex(a)][2])]

\* the Inspector before check_object_type is called on source
InspectorStart ==
    /\ ipc = "idle"
    /\ ierr = NoErr
    /\ obj = None
    /\ action_attr = {}
    /\ defs = <<>>
    /\ ret = <<>>

\* no object-type source is inspected
InspectorIdle ==
    /\ source = <<>>
    /\ InspectorStart

\* no call of the Tree Utility Library has been made on the empty script
TreeIdle ==
    /\ utree = empty_script_tree
    /\ uprev = empty_script_tree
    /\ ucall = [op |-> None]
    /\ ures = NoErr
    /\ uimported = {}
    /\ ucalls = 0

MaxProcs == 2

MaxLines == 1

MaxReqs == 3

NoProc == 0

Clients == {"c1", "c2"}

Procs == 1..MaxProcs

NoReq == [kind |-> None, running |-> FALSE]

NoResp == [result |-> None, msg |-> None]

\* the manager after main() has started the server: no process, no task, no
\* client; a connection may open for every client
ManagerStart ==
    /\ PROCESS = NoProc
    /\ TASK = NoProc
    /\ CLIENTS = {}
    /\ procs = [p \in Procs |-> [state |-> "none", terminated |-> FALSE, lines |-> 0,
                                 stdin |-> <<>>]]
    /\ cpc = [c \in Clients |-> "connect"]
    /\ creq = [c \in Clients |-> NoReq]
    /\ cresp = [c \in Clients |-> NoResp]
    /\ cwait = [c \in Clients |-> NoProc]
    /\ tpc = [t \in Procs |-> "none"]
    /\ tstream = [t \in Procs |-> NoProc]
    /\ tev = [t \in Procs |-> <<>>]
    /\ nreq = 0

MaxMsgs == 2

\* the names manager.py asserts to be keys of RPC_MAPPING
RpcNames == {"runProject", "stopProject", "pauseProject", "resumeProject"}

\* RPC_MAPPING[name]: the request class and the response class of a name
RPC_MAPPING(name) == [req_cls |-> <<"Request", name>>, resp_cls |-> <<"Response", name>>]

\* a dictionary key that is the Python string s
Str(s) == <<"str", s>>

\* manager.RPC_DICT: the handlers keyed by the names of their requests
RPC_DICT ==
    [k \in {Str(n) : n \in RpcNames} |->
        CASE k[2] = "runProject" -> "project_run"
          [] k[2] = "stopProject" -> "project_stop"
          [] k[2] = "pauseProject" -> "project_pause"
          [] k[2] = "resumeProject" -> "project_resume"]

\* event_dict = {} when the caller passes none
NoEvents == [k \in {} |-> None]

\* a connection before websockets.serve has started server for it
ServerStart ==
    /\ registered = {}
    /\ conn = [c \in Clients |-> "connect"]
    /\ req = [c \in Clients |-> None]
    /\ resp = [c \in Clients |-> None]
    /\ raised = [c \in Clients |-> None]
    /\ received = [c \in Clients |-> <<>>]
    /\ sent = [c \in Clients |-> <<>>]
    /\ unregistered = [c \in Clients |-> 0]
    /\ nmsg = 0

\* the server as manager.main binds it, with no connection opened
ServerIdle ==
    /\ rpc_dict = RPC_DICT
    /\ event_dict = NoEvents
    /\ ServerStart

OutsideCompilerIdle == InspectorIdle /\ TreeIdle /\ ManagerStart /\ ServerIdle

InitCalls ==
    /\ epc = "idle"
    /\ eerr = NoErr
    /\ tree = empty_script_tree
    /\ first_action_id = None
    /\ last_action_id = None
    /\ next_action_id = None
    /\ text = NoText
    /\ rpc = "idle"
    /\ rerr = NoErr
    /\ loop = <<>>
    /\ loop_len = 0
    /\ node_idx = 0
    /\ found_actions = {}
    /\ last_action = None
    /\ actions0 = actions

\* any project of at most MaxActions actions, each with at most one input
\* and one output, in one of the scenes
Init ==
    /\ \E k \in 0..MaxActions, su \in 1..Len(Setups) :
         /\ scene = Setups[su].scene
         /\ \E io \in [1..k -> InputOpts \X OutputOpts] :
              actions = MkActions(k, Setups[su].typeOf, io)
    /\ InitCalls
    /\ OutsideCompilerIdle

\* ------------------------------------------------------- Script Emitter

FirstIds(acts) ==
    {a \in DOMAIN acts : Len(acts[a].inputs) > 0 /\ acts[a].inputs[1] = FIRST}

LastIds(acts) ==
    {a \in DOMAIN acts : Len(acts[a].outputs) > 0 /\ acts[a].outputs[1] = LAST}

\* get_actions_cache(project): the possible (first_action_id, last_action_id);
\* the cache itself is the project's actions by id.  None when no action is
\* marked; any marked action when several are.
get_actions_cache(acts) ==
    (IF FirstIds(acts) = {} THEN {None} ELSE FirstIds(acts))
        \X (IF LastIds(acts) = {} THEN {None} ELSE LastIds(acts))

\* StartEndCheck without the test of last_action_id
StartEndCheck_NoEndTest(first, last) ==
    IF first = None
    THEN Raise("GenerateSourceException", "'start' action not found.")
    ELSE NoErr

\* add_logic_to_loop, lines 246-250: the exception raised, or NoErr
StartEndCheck(first, last) ==
    IF first = None
    THEN Raise("GenerateSourceException", "'start' action not found.")
    ELSE IF last = None
    THEN Raise("GenerateSourceException", "'end' action not found.")
    ELSE NoErr

\* program_src, lines 154-169, and add_logic_to_loop, lines 242-252:
\* the tree is built, then the start and end actions are looked up
program_src ==
    /\ epc = "idle"
    /\ rpc = "idle"
    /\ LET t == script_tree(scene)
       IN  IF IsExc(t)
           THEN /\ epc' = "raised"
                /\ eerr' = t
                /\ UNCHANGED <<tree, first_action_id, last_action_id, next_action_id>>
           ELSE \E fl \in get_actions_cache(actions) :
                  /\ tree' = t
                  /\ first_action_id' = fl[1]
                  /\ last_action_id' = fl[2]
                  /\ IF StartEndCheck(fl[1], fl[2]) # NoErr
                     THEN /\ epc' = "raised"
                          /\ eerr' = StartEndCheck(fl[1], fl[2])
                          /\ UNCHANGED next_action_id
                     ELSE /\ epc' = "walk"
                          /\ next_action_id' = fl[1]
                          /\ UNCHANGED eerr
    /\ UNCHANGED <<actions, scene, text>>
    /\ UNCHANGED rvars
    /\ UNCHANGED outside_compiler

\* LoopWithCall that leaves the placeholder pass in the body
LoopWithCall_KeepPass(body, act) ==
    append_method_call(body, fix_object_name(act.type.obj), act.type.method, act.id)

\* the loop body after one more call statement (lines 258-270)
LoopWithCall(body, act) ==
    append_method_call(IF Len(body) = 1 /\ body[1] = Pass THEN <<>> ELSE body,
                       fix_object_name(act.type.obj), act.type.method, act.id)

\* ActionsAfterCall as if the followed link were taken with outputs.pop(0)
ActionsAfterCall_PopOutput(acts, act) ==
    IF act.outputs = <<>> THEN acts ELSE [acts EXCEPT ![act.id].outputs = Tail(@)]

\* the action cache after one iteration of the while loop: the iteration
\* only reads act.type, act.id and act.outputs[0].default (lines 256-275)
ActionsAfterCall(acts, act) == acts

\* one iteration of the while loop of add_logic_to_loop (lines 254-275);
\* on break program_src returns tree_to_str(tree) (line 171)
add_logic_to_loop ==
    /\ epc = "walk"
    /\ Len(tree.loop) < MaxLoop
    /\ IF next_action_id \notin DOMAIN actions
       THEN /\ epc' = "raised"
            /\ eerr' = Raise("KeyError", next_action_id)
            /\ UNCHANGED <<actions, tree, next_action_id, text>>
       ELSE LET act == actions[next_action_id]
            IN  /\ tree' = [tree EXCEPT !.loop = LoopWithCall(@, act)]
                /\ actions' = ActionsAfterCall(actions, act)
                /\ IF act.id = last_action_id
                   THEN /\ epc' = "done"
                        /\ text' = tree_to_str(tree')
                        /\ UNCHANGED <<eerr, next_action_id>>
                   ELSE IF act.outputs = <<>>
                   THEN /\ epc' = "raised"
                        /\ eerr' = Raise("IndexError", "list index out of range")
                        /\ UNCHANGED <<next_action_id, text>>
                   ELSE /\ next_action_id' = act.outputs[1]
                        /\ UNCHANGED <<epc, eerr, text>>
    /\ UNCHANGED <<scene, first_action_id, last_action_id>>
    /\ UNCHANGED rvars
    /\ UNCHANGED outside_compiler

\* ------------------------------------------------------ Script Recoverer

\* get_logic_from_source(source_code, project), lines 176-185, on the text
\* program_src returned
get_logic_from_source ==
    /\ rpc = "idle"
    /\ epc = "done"
    /\ LET t == parse(text)
           body == IF IsExc(t) THEN t ELSE main_loop_body(t)
       IN  IF IsExc(body)
           THEN /\ rpc' = "raised"
                /\ rerr' = body
                /\ UNCHANGED <<loop, loop_len>>
           ELSE /\ loop' = body.body
                /\ loop_len' = Len(body.body)
                /\ rpc' = IF Len(body.body) = 0 THEN "done" ELSE "walk"
                /\ UNCHANGED rerr
    /\ node_idx' = 0
    /\ found_actions' = {}
    /\ last_action' = None
    /\ actions0' = actions
    /\ UNCHANGED <<actions, scene>>
    /\ UNCHANGED evars
    /\ UNCHANGED outside_compiler

\* RebuildLinks without action.outputs.clear()
RebuildLinks_KeepOutputs(acts, id, idx, last, n) ==
    LET a1 == [acts EXCEPT ![id].inputs = IF idx = 0 THEN <<FIRST>> ELSE <<last>>]
        a2 == IF idx > 0 THEN [a1 EXCEPT ![last].outputs = Append(@, id)] ELSE a1
    IN  IF idx = n - 1 THEN [a2 EXCEPT ![id].outputs = Append(@, LAST)] ELSE a2

\* the rebuilt links of the action walked at node_idx (lines 221-235)
RebuildLinks(acts, id, idx, last, n) ==
    LET a1 == [acts EXCEPT ![id].inputs = IF idx = 0 THEN <<FIRST>> ELSE <<last>>,
                           ![id].outputs = <<>>]
        a2 == IF idx > 0 THEN [a1 EXCEPT ![last].outputs = Append(@, id)] ELSE a1
    IN  IF idx = n - 1 THEN [a2 EXCEPT ![id].outputs = Append(@, LAST)] ELSE a2

\* CheckNode without the found_actions test
CheckNode_NoDuplicateTest(node, acts, found) ==
    IF node.node # "Expr"
    THEN Raise("GenerateSourceException", "Unexpected content.")
    ELSE IF ~IsMethodCall(node)
    THEN Raise("GenerateSourceException", "Script has unexpected content.")
    ELSE IF node.attr \notin DOMAIN acts
    THEN Raise("GenerateSourceException", "Unknown action")
    ELSE IF convert_cc(acts[node.attr].type.obj) # node.instance
            \/ acts[node.attr].type.method # node.method
    THEN Raise("GenerateSourceException", "Action type does not correspond to source")
    ELSE NoErr

\* the checks of one loop statement (lines 190-219): the exception raised,
\* or NoErr
CheckNode(node, acts, found) ==
    IF node.node # "Expr"
    THEN Raise("GenerateSourceException", "Unexpected content.")
    ELSE IF ~IsMethodCall(node)
    THEN Raise("GenerateSourceException", "Script has unexpected content.")
    ELSE IF node.attr \in found
    THEN Raise("GenerateSourceException", "Duplicate action")
    ELSE IF node.attr \notin DOMAIN acts
    THEN Raise("GenerateSourceException", "Unknown action")
    ELSE IF convert_cc(acts[node.attr].type.obj) # node.instance
            \/ acts[node.attr].type.method # node.method
    THEN Raise("GenerateSourceException", "Action type does not correspond to source")
    ELSE NoErr

\* CacheAfter with the two clear() calls moved before the type check
CacheAfter_ClearBeforeCheck(node, acts, found, idx, last, n) ==
    IF CheckNode(node, acts, found) = NoErr
    THEN RebuildLinks(acts, node.attr, idx, last, n)
    ELSE IF IsMethodCall(node) /\ node.attr \in DOMAIN acts /\ node.attr \notin found
    THEN [acts EXCEPT ![node.attr].inputs = <<>>, ![node.attr].outputs = <<>>]
    ELSE acts

\* the action cache after one loop statement: untouched when a check raises
\* (every raise of lines 190-219 precedes the first mutation at line 221)
CacheAfter(node, acts, found, idx, last, n) ==
    IF CheckNode(node, acts, found) # NoErr
    THEN acts
    ELSE RebuildLinks(acts, node.attr, idx, last, n)

\* one iteration of the for loop of get_logic_from_source (lines 187-237)
\* on the statement node
WalkNode(node) ==
    LET e == CheckNode(node, actions, found_actions)
    IN  /\ found_actions' = IF IsMethodCall(node) /\ node.attr \notin found_actions
                            THEN found_actions \cup {node.attr} ELSE found_actions
        /\ actions' = CacheAfter(node, actions, found_actions, node_idx, last_action, loop_len)
        /\ IF e # NoErr
           THEN /\ rpc' = "raised"
                /\ rerr' = e
                /\ UNCHANGED <<node_idx, last_action>>
           ELSE /\ last_action' = node.attr
                /\ node_idx' = node_idx + 1
                /\ rpc' = IF node_idx + 1 = loop_len THEN "done" ELSE "walk"
                /\ UNCHANGED rerr
        /\ UNCHANGED <<scene, loop_len, actions0>>
        /\ UNCHANGED evars
        /\ UNCHANGED outside_compiler

\* the walk over the text program_src returned
walk_statement ==
    /\ rpc = "walk"
    /\ node_idx < Len(loop)
    /\ WalkNode(loop[node_idx + 1])
    /\ UNCHANGED loop

Next ==
    \/ program_src
    \/ add_logic_to_loop
    \/ get_logic_from_source
    \/ walk_statement

Spec == Init /\ [][Next]_vars

\* ------------------------------------------ recovery of hand-edited text

\* variable names a hand-edited call statement may use
Vars == {<<"r">>, <<"a", "_", "b">>}

Methods == {"m1", "m2"}

\* the statements a hand-edited loop body is made of
Stmts ==
    {Pass, OtherExpr}
        \cup {MethodCall(v, m, a) : v \in Vars, m \in Methods, a \in ActionIds \cup {UnknownId}}

\* inputs and outputs an action of the cache may have before recovery
PriorIO == {<<<<>>, <<>>>>, <<<<FIRST>>, <<LAST>>>>, <<<<ActName[1]>>, <<ActName[1], LAST>>>>}

\* the links of the chain a1 -> a2 -> ... -> ak
ChainIO(k) ==
    [i \in 1..k |-> << IF i = 1 THEN <<FIRST>> ELSE <<ActName[i - 1]>>,
                       IF i = k THEN <<LAST>> ELSE <<ActName[i + 1]>> >>]

\* a cache of 1..MaxActions actions, linked as a chain or arbitrarily
InitEdit ==
    /\ \E k \in 1..MaxActions, su \in 1..Len(Setups) :
         /\ scene = Setups[su].scene
         /\ \E io \in [1..k -> PriorIO] \cup {ChainIO(k)} :
              actions = MkActions(k, Setups[su].typeOf, io)
    /\ InitCalls
    /\ OutsideCompilerIdle

\* get_logic_from_source(source_code, project), lines 176-185, on a
\* hand-edited text whose loop body has n statements
get_logic_from_edited_source ==
    /\ rpc = "idle"
    /\ epc = "idle"
    /\ \E n \in 1..MaxStmts :
         /\ loop_len' = n
         /\ loop' = <<>>
    /\ rpc' = "walk"
    /\ node_idx' = 0
    /\ found_actions' = {}
    /\ last_action' = None
    /\ actions0' = actions
    /\ UNCHANGED <<actions, scene, rerr>>
    /\ UNCHANGED evars
    /\ UNCHANGED outside_compiler

\* the walk over a hand-edited text.  The for loop reads the statements in
\* textual order and knows only len(loop) beforehand, so the statement at
\* node_idx is drawn from Stmts when the walk reaches it; loop holds the
\* statements read so far, the failing one included.
walk_edited_statement ==
    /\ rpc = "walk"
    /\ node_idx = Len(loop)
    /\ node_idx < loop_len
    /\ \E node \in Stmts :
         /\ loop' = Append(loop, node)
         /\ WalkNode(node)

NextEdit ==
    \/ get_logic_from_edited_source
    \/ walk_edited_statement

SpecEdit == InitEdit /\ [][NextEdit]_vars

\* -------------------------------------------------- Object-Type Inspector

MaxDefs == 2

\* no project and no program text is compiled
CompilerIdle ==
    /\ actions = <<>>
    /\ scene = <<>>
    /\ InitCalls

Import == [node |-> "ImportFrom"]

\* <name>.__action__ = ActionMetadata(<kw>=True)
MetaAssign(name, kw) == [node |-> "Assign", target |-> name, attr |-> "__action__", kw |-> kw]

\* __DESCRIPTION__ = "..."
DescAssign == [node |-> "Assign", target |-> "__DESCRIPTION__", attr |-> None, kw |-> None]

arg(name, annotation) == [arg |-> name, annotation |-> annotation]

FunctionDef(name, decorator_list, args, kwonlyargs) ==
    [node |-> "FunctionDef", name |-> name, decorator_list |-> decorator_list,
     args |-> args, kwonlyargs |-> kwonlyargs]

\* the body of a class is read through two filters, isinstance(node, Assign)
\* and isinstance(node, FunctionDef): assigns is its Assign nodes in order,
\* ndefs the number of its FunctionDef nodes
ClassDef(name, bases, assigns, ndefs) ==
    [node |-> "ClassDef", name |-> name, bases |-> bases, assigns |-> assigns,
     ndefs |-> ndefs]

\* the fields of ActionMetadata
ActionMetadataFields == {"free", "blocking", "composite", "blackbox"}

MethodNames == {"m1", "m2"}

MetaNames == <<"m1", "m2", "m3">>

\* the parameters of a method: args.args and args.kwonlyargs
Params == {
    [args |-> <<arg("self", None), arg("x", "int"), arg("y", "str")>>, kwonlyargs |-> <<>>],
    [args |-> <<arg("self", None), arg("x", None)>>, kwonlyargs |-> <<>>],
    [args |-> <<arg("self", None), arg("x", "int")>>, kwonlyargs |-> <<arg("z", None)>>] }

\* the method definitions an object-type source is made of
FunctionDefs ==
    {FunctionDef(n, d, p.args, p.kwonlyargs) :
        n \in MethodNames, d \in {<<>>, <<"action">>}, p \in Params}

\* the metadata assignments of a class body: one for each name of S, in the
\* order of MetaNames, with the keyword kwOf gives it
MetaAssigns(S, kwOf) ==
    LET picked == SelectSeq(MetaNames, LAMBDA n : n \in S)
    IN  [i \in 1..Len(picked) |-> MetaAssign(picked[i], kwOf[picked[i]])]

\* the top-level nodes of an object-type source whose class A has the given
\* Assign nodes and n method definitions: no class, one class, or two
Sources(assigns, n) == {
    <<>>,
    <<Import>>,
    <<ClassDef("A", <<>>, assigns, n)>>,
    <<Import, ClassDef("A", <<"Generic">>, assigns, n)>>,
    <<ClassDef("A", <<"X", "Y">>, assigns, n)>>,
    <<ClassDef("A", <<>>, assigns, n), ClassDef("B", <<"Generic">>, <<>>, 0)>>,
    <<ClassDef("B", <<>>, <<>>, 0), Import, ClassDef("A", <<>>, assigns, n)>> }

InitInspect ==
    /\ \E S \in SUBSET {MetaNames[i] : i \in 1..Len(MetaNames)} :
         \E kwOf \in [S -> {"free", "bogus"}] :
            \E n \in 0..MaxDefs :
                source \in Sources(<<DescAssign>> \o MetaAssigns(S, kwOf), n)
    /\ InspectorStart
    /\ CompilerIdle
    /\ TreeIdle
    /\ ManagerStart
    /\ ServerIdle

\* the for loop of object_cls_def from node i on (lines 133-142)
RECURSIVE cls_def_loop(_, _, _)
cls_def_loop(body, i, cls_def) ==
    IF i > Len(body)
    THEN Raise("GenerateSourceException", "No class definition!")
    ELSE IF body[i].node = "ClassDef"
    THEN IF cls_def = None
         THEN body[i]
         ELSE Raise("GenerateSourceException", "Multiple class definition!")
    ELSE cls_def_loop(body, i + 1, cls_def)

\* object_cls_def(object_source)
object_cls_def(object_source) == cls_def_loop(object_source, 1, None)

\* object_type_info(object_source): the ObjectType, or the exception raised
ObjectTypeInfo(object_source) ==
    LET t == object_cls_def(object_source)
    IN  IF IsExc(t) THEN t
        ELSE IF Len(t.bases) > 1
        THEN Raise("GenerateSourceException", "Only one base class is supported!")
        ELSE [name |-> t.name,
              base |-> IF Len(t.bases) > 0 THEN t.bases[1] ELSE None,
              description |-> \E i \in 1..Len(t.assigns) : t.assigns[i] = DescAssign]

\* check_object_type, line 102
object_type_info ==
    /\ ipc = "idle"
    /\ LET o == ObjectTypeInfo(source)
       IN  IF IsExc(o)
           THEN ipc' = "raised" /\ ierr' = o /\ UNCHANGED obj
           ELSE ipc' = "info" /\ obj' = o /\ UNCHANGED ierr
    /\ UNCHANGED <<source, action_attr, defs, ret>>
    /\ UNCHANGED outside_inspector

\* the first loop of get_object_actions (lines 37-58): the names given
\* metadata, or the exception raised
ActionAttr(assigns) ==
    LET metas == {i \in 1..Len(assigns) : assigns[i].attr = "__action__"}
    IN  IF \E i \in metas : assigns[i].kw \notin ActionMetadataFields
        THEN LET i == CHOOSE i \in metas :
                        /\ assigns[i].kw \notin ActionMetadataFields
                        /\ \A j \in metas : j < i => assigns[j].kw \in ActionMetadataFields
             IN  Raise("GenerateSourceException", "Unknown __action__ attribute")
        ELSE [names |-> {assigns[i].target : i \in metas}]

\* check_object_type, line 103: get_object_actions up to its second loop
get_object_actions ==
    /\ ipc = "info"
    /\ LET t == object_cls_def(source)
           attr == IF IsExc(t) THEN t ELSE ActionAttr(t.assigns)
       IN  IF IsExc(attr)
           THEN ipc' = "raised" /\ ierr' = attr /\ UNCHANGED action_attr
           ELSE /\ action_attr' = attr.names
                /\ ipc' = IF t.ndefs = 0 THEN "done" ELSE "scan"
                /\ UNCHANGED ierr
    /\ UNCHANGED <<source, obj, defs, ret>>
    /\ UNCHANGED outside_inspector

\* the decorator loop of lines 67-69
HasActionDecorator(node) ==
    \E i \in 1..Len(node.decorator_list) : node.decorator_list[i] = "action"

\* the positional parameters that are not named self
NonSelfArgs(node) == SelectSeq(node.args, LAMBDA a : a.arg # "self")

\* one iteration of the second loop of get_object_actions on a FunctionDef
\* (lines 67-90): the exception raised, a skip, or the ObjectAction appended
ScanMethod(node, attrs) ==
    IF ~HasActionDecorator(node)
    THEN IF node.name \in attrs
         THEN Raise("GenerateSourceException", "Method has metadata, but no @action decorator.")
         ELSE [skip |-> TRUE]
    ELSE IF node.name \notin attrs
    THEN Raise("GenerateSourceException", "Method has @action decorator, but no metadata.")
    ELSE IF \E i \in 1..Len(NonSelfArgs(node)) : NonSelfArgs(node)[i].annotation = None
    THEN Raise("GenerateSourceException", "Argument of method not annotated.")
    ELSE [skip |-> FALSE,
          oa |-> [name |-> node.name,
                  action_args |-> [i \in 1..Len(NonSelfArgs(node)) |->
                        [name |-> NonSelfArgs(node)[i].arg,
                         type |-> NonSelfArgs(node)[i].annotation]]]]

\* the second loop of get_object_actions reaches the next FunctionDef of the
\* class body; after the last one get_object_actions returns ret (line 92).
\* The loop reads the method definitions in declaration order, so the one it
\* reaches is drawn from FunctionDefs here; defs holds those read so far.
scan_method ==
    /\ ipc = "scan"
    /\ Len(defs) < object_cls_def(source).ndefs
    /\ \E node \in FunctionDefs :
         LET r == ScanMethod(node, action_attr)
         IN  /\ defs' = Append(defs, node)
             /\ IF IsExc(r)
                THEN ipc' = "raised" /\ ierr' = r /\ UNCHANGED ret
                ELSE /\ ret' = IF r.skip THEN ret ELSE Append(ret, r.oa)
                     /\ ipc' = IF Len(defs') = object_cls_def(source).ndefs
                               THEN "done" ELSE "scan"
                     /\ UNCHANGED ierr
    /\ UNCHANGED <<source, obj, action_attr>>
    /\ UNCHANGED outside_inspector

NextInspect ==
    \/ object_type_info
    \/ get_object_actions
    \/ scan_method

SpecInspect == InitInspect /\ [][NextInspect]_vars

\* ------------------------------------------------- Tree Utility Library

MaxCalls == 4

Res == <<"r", "e", "s">>

\* modules, classes, instance names and object ids the calls are made with
Modules == {[pkg |-> "resources", sub |-> <<>>], TypeModule(Robot)}

Classes == {Resources, Robot}

Names == {Res, obj_r}

ObjectIds == {Res, obj_r}

\* add_import(node, module, cls, try_to_import=True): importable tells
\* whether importlib finds cls in module (lines 414-430)
add_import_try(t, module, cls, importable) ==
    IF ~importable
    THEN Raise("GenerateSourceException", "ModuleNotFoundError")
    ELSE add_import(t, module, cls)

\* a call has returned res for the tree t
Called(t, call, res) ==
    /\ ucalls < MaxCalls
    /\ ucalls' = ucalls + 1
    /\ ucall' = call
    /\ uprev' = t
    /\ IF IsExc(res)
       THEN ures' = res /\ utree' = t
       ELSE ures' = NoErr /\ utree' = res

call_add_import ==
    /\ \E module \in Modules, cls \in Classes, try_to_import, importable \in BOOLEAN :
         LET res == IF try_to_import
                    THEN add_import_try(utree, module, cls, importable)
                    ELSE add_import(utree, module, cls)
         IN  /\ Called(utree, [op |-> "add_import", module |-> module, cls |-> cls], res)
             /\ uimported' = IF IsExc(res) THEN uimported
                             ELSE uimported \cup {<<module, cls>>}
    /\ UNCHANGED outside_tree

call_add_cls_inst ==
    /\ \E cls \in Classes, name \in Names :
         Called(utree, [op |-> "add_cls_inst", cls |-> cls, name |-> name],
                add_cls_inst(utree, cls, name))
    /\ UNCHANGED uimported
    /\ UNCHANGED outside_tree

call_object_instance_from_res ==
    /\ \E object_id \in ObjectIds, cls_name \in Classes :
         Called(utree, [op |-> "object_instance_from_res", object_id |-> object_id,
                        cls |-> cls_name],
                object_instance_from_res(utree, object_id, cls_name))
    /\ UNCHANGED uimported
    /\ UNCHANGED outside_tree

InitTree ==
    /\ TreeIdle
    /\ InspectorIdle
    /\ CompilerIdle
    /\ ManagerStart
    /\ ServerIdle

NextTree ==
    \/ call_add_import
    \/ call_add_cls_inst
    \/ call_object_instance_from_res

SpecTree == InitTree /\ [][NextTree]_vars

\* ------------------------------------------------------- manager node

\* process_running()
process_running == PROCESS # NoProc /\ procs[PROCESS].state = "running"

\* send_to_clients(event) from the reader task t: nothing is sent when no
\* client is registered
send_to_clients(t, event) ==
    tev' = [tev EXCEPT ![t] = IF CLIENTS # {} THEN Append(@, event) ELSE @]

\* a handler returns resp to server, which goes on to send the response
Return(c, result, msg) ==
    /\ cresp' = [cresp EXCEPT ![c] = [result |-> result, msg |-> msg]]
    /\ cpc' = [cpc EXCEPT ![c] = "send"]

\* an exception leaves the handler and server: the finally clause is next
RaiseInHandler(c, exc) ==
    /\ cresp' = [cresp EXCEPT ![c] = [result |-> "raised", msg |-> exc]]
    /\ cpc' = [cpc EXCEPT ![c] = "finally"]

\* server receives a request of the given kind from client c
Receive(c, kind) ==
    /\ cpc[c] = "recv"
    /\ nreq < MaxReqs
    /\ nreq' = nreq + 1
    /\ creq' = [creq EXCEPT ![c] = [kind |-> kind, running |-> process_running]]

\* server, line 79: a connection opens and the client is registered
server_register(c) ==
    /\ cpc[c] = "connect"
    /\ cpc' = [cpc EXCEPT ![c] = "recv"]
    /\ CLIENTS' = CLIENTS \cup {c}
    /\ UNCHANGED <<PROCESS, TASK, procs, creq, cresp, cwait, tpc, tstream, tev, nreq>>
    /\ UNCHANGED outside_manager

\* server, line 118: the response is sent and the next message awaited;
\* req, resp and the locals of the handler are dead from here on
server_send(c) ==
    /\ cpc[c] = "send"
    /\ cpc' = [cpc EXCEPT ![c] = "recv"]
    /\ creq' = [creq EXCEPT ![c] = NoReq]
    /\ cresp' = [cresp EXCEPT ![c] = NoResp]
    /\ cwait' = [cwait EXCEPT ![c] = NoProc]
    /\ UNCHANGED <<PROCESS, TASK, CLIENTS, procs, tpc, tstream, tev, nreq>>
    /\ UNCHANGED outside_manager

\* server, lines 81 and 143: the connection is closed while the next message
\* is awaited
server_close(c) ==
    /\ cpc[c] = "recv"
    /\ cpc' = [cpc EXCEPT ![c] = "finally"]
    /\ UNCHANGED <<PROCESS, TASK, CLIENTS, procs, creq, cresp, cwait, tpc, tstream, tev, nreq>>
    /\ UNCHANGED outside_manager

\* server, lines 145-146: unregister(client)
server_unregister(c) ==
    /\ cpc[c] = "finally"
    /\ cpc' = [cpc EXCEPT ![c] = "closed"]
    /\ CLIENTS' = CLIENTS \ {c}
    /\ UNCHANGED <<PROCESS, TASK, procs, creq, cresp, cwait, tpc, tstream, tev, nreq>>
    /\ UNCHANGED outside_manager

\* project_run, lines 73-80: the check, then the await of publish_project
project_run(c) ==
    /\ Receive(c, "runProject")
    /\ IF process_running
       THEN Return(c, FALSE, "Already running!")
       ELSE cpc' = [cpc EXCEPT ![c] = "run_publish"] /\ UNCHANGED cresp
    /\ UNCHANGED <<PROCESS, TASK, CLIENTS, procs, cwait, tpc, tstream, tev>>
    /\ UNCHANGED outside_manager

\* project_run, lines 80-94: the project is published and unpacked, the
\* logger awaited, create_subprocess_exec called
project_run_publish(c) ==
    /\ cpc[c] = "run_publish"
    /\ cpc' = [cpc EXCEPT ![c] = "run_spawn"]
    /\ UNCHANGED <<PROCESS, TASK, CLIENTS, procs, creq, cresp, cwait, tpc, tstream, tev, nreq>>
    /\ UNCHANGED outside_manager

\* the process create_subprocess_exec returns next
NextProc == CHOOSE p \in Procs : procs[p].state = "none" /\ \A q \in Procs : q < p => procs[q].state # "none"

\* project_run, lines 94-98: PROCESS names the new process p whatever it
\* named before; TASK its reader unless p has exited already
ProcessAfterSpawn(p, alive) ==
    [process |-> p,
     task |-> IF alive THEN p ELSE TASK,
     state |-> IF alive THEN "running" ELSE "exited",
     started |-> alive]

\* project_run, lines 94-98: create_subprocess_exec returns
project_run_spawn(c) ==
    /\ cpc[c] = "run_spawn"
    /\ \E p \in Procs : procs[p].state = "none"
    /\ \E alive \in BOOLEAN :
         LET p == NextProc
             r == ProcessAfterSpawn(p, alive)
         IN  /\ PROCESS' = r.process
             /\ TASK' = r.task
             /\ procs' = [procs EXCEPT ![p].state = r.state]
             /\ tpc' = [tpc EXCEPT ![p] = IF r.started THEN "start" ELSE @]
             /\ IF r.started
                THEN Return(c, TRUE, None)
                ELSE Return(c, FALSE, "Failed to start project.")
    /\ UNCHANGED <<CLIENTS, creq, cwait, tstream, tev, nreq>>
    /\ UNCHANGED outside_manager

\* project_stop, lines 103-109: the check, then the await of the logger
project_stop(c) ==
    /\ Receive(c, "stopProject")
    /\ IF ~process_running
       THEN Return(c, FALSE, "Project not running.")
       ELSE cpc' = [cpc EXCEPT ![c] = "stop_terminate"] /\ UNCHANGED cresp
    /\ UNCHANGED <<PROCESS, TASK, CLIENTS, procs, cwait, tpc, tstream, tev>>
    /\ UNCHANGED outside_manager

\* project_stop, lines 110-111: PROCESS.terminate(), which raises
\* ProcessLookupError on a process that has exited; then the logger is awaited
project_stop_terminate(c) ==
    /\ cpc[c] = "stop_terminate"
    /\ IF procs[PROCESS].state # "running"
       THEN RaiseInHandler(c, "ProcessLookupError") /\ UNCHANGED procs
       ELSE /\ procs' = [procs EXCEPT ![PROCESS].terminated = TRUE]
            /\ cpc' = [cpc EXCEPT ![c] = "stop_wait"]
            /\ UNCHANGED cresp
    /\ UNCHANGED <<PROCESS, TASK, CLIENTS, creq, cwait, tpc, tstream, tev, nreq>>
    /\ UNCHANGED outside_manager

\* project_stop, line 112: asyncio.wait([TASK]) is called
project_stop_wait(c) ==
    /\ cpc[c] = "stop_wait"
    /\ cwait' = [cwait EXCEPT ![c] = TASK]
    /\ cpc' = [cpc EXCEPT ![c] = "stop_waiting"]
    /\ UNCHANGED <<PROCESS, TASK, CLIENTS, procs, creq, cresp, tpc, tstream, tev, nreq>>
    /\ UNCHANGED outside_manager

\* the task asyncio.wait was given is done, with a result or an exception
TaskDone(t) == tpc[t] \in {"done", "failed"}

\* project_stop, line 112: asyncio.wait returns and project_stop with it
project_stop_return(c) ==
    /\ cpc[c] = "stop_waiting"
    /\ TaskDone(cwait[c])
    /\ Return(c, TRUE, None)
    /\ UNCHANGED <<PROCESS, TASK, CLIENTS, procs, creq, cwait, tpc, tstream, tev, nreq>>
    /\ UNCHANGED outside_manager

\* project_pause and project_resume up to the await of drain(): the check
\* and the write of the control byte to the stdin of PROCESS
WriteControl(c, kind, byte, pc) ==
    /\ Receive(c, kind)
    /\ IF ~process_running
       THEN Return(c, FALSE, "Project not running.") /\ UNCHANGED procs
       ELSE /\ procs' = [procs EXCEPT ![PROCESS].stdin = Append(@, byte)]
            /\ cpc' = [cpc EXCEPT ![c] = pc]
            /\ UNCHANGED cresp
    /\ UNCHANGED <<PROCESS, TASK, CLIENTS, cwait, tpc, tstream, tev>>
    /\ UNCHANGED outside_manager

\* project_pause, lines 117-126
project_pause(c) == WriteControl(c, "pauseProject", "p", "drain")

\* project_resume, lines 132-140
project_resume(c) == WriteControl(c, "resumeProject", "r", "drain")

\* lines 126-127 and 140-141: drain() returns, or raises when the process
\* has gone and its pipe is closed
stdin_drain(c) ==
    /\ cpc[c] = "drain"
    /\ \/ Return(c, TRUE, None)
       \/ /\ ~process_running
          /\ RaiseInHandler(c, "ConnectionResetError")
    /\ UNCHANGED <<PROCESS, TASK, CLIENTS, procs, creq, cwait, tpc, tstream, tev, nreq>>
    /\ UNCHANGED outside_manager

\* read_proc_stdout, lines 44-49: the task starts and sends RUNNING
read_proc_stdout(t) ==
    /\ tpc[t] = "start"
    /\ send_to_clients(t, "RUNNING")
    /\ tpc' = [tpc EXCEPT ![t] = "loop"]
    /\ UNCHANGED <<PROCESS, TASK, CLIENTS, procs, cpc, creq, cresp, cwait, tstream, nreq>>
    /\ UNCHANGED outside_manager

\* read_proc_stdout, lines 51-53 and 63: the test of the while loop on the
\* global PROCESS; readuntil() raises RuntimeError when another task already
\* waits on the stream
reader_loop(t) ==
    /\ tpc[t] = "loop"
    /\ IF ~process_running
       THEN /\ send_to_clients(t, "STOPPED")
            /\ tpc' = [tpc EXCEPT ![t] = "done"]
            /\ UNCHANGED tstream
       ELSE IF \E u \in Procs : u # t /\ tpc[u] = "read" /\ tstream[u] = PROCESS
       THEN /\ tpc' = [tpc EXCEPT ![t] = "failed"]
            /\ UNCHANGED <<tstream, tev>>
       ELSE /\ tpc' = [tpc EXCEPT ![t] = "read"]
            /\ tstream' = [tstream EXCEPT ![t] = PROCESS]
            /\ UNCHANGED tev
    /\ UNCHANGED <<PROCESS, TASK, CLIENTS, procs, cpc, creq, cresp, cwait, nreq>>
    /\ UNCHANGED outside_manager

\* read_proc_stdout, lines 53-61: readuntil() returns a line the process
\* printed.  A line that is JSON is handed to send_to_clients, which calls
\* to_json() on the parsed value when a client is registered: AttributeError.
reader_line(t) ==
    /\ tpc[t] = "read"
    /\ procs[tstream[t]].state = "running"
    /\ procs[tstream[t]].lines < MaxLines
    /\ procs' = [procs EXCEPT ![tstream[t]].lines = @ + 1]
    /\ \E is_json \in BOOLEAN :
         tpc' = [tpc EXCEPT ![t] = IF is_json /\ CLIENTS # {} THEN "failed" ELSE "loop"]
    /\ UNCHANGED <<PROCESS, TASK, CLIENTS, cpc, creq, cresp, cwait, tstream, tev, nreq>>
    /\ UNCHANGED outside_manager

\* read_proc_stdout, lines 54-55 and 63: end of the stream, IncompleteReadError,
\* break, STOPPED is sent
reader_eof(t) ==
    /\ tpc[t] = "read"
    /\ procs[tstream[t]].state = "exited"
    /\ send_to_clients(t, "STOPPED")
    /\ tpc' = [tpc EXCEPT ![t] = "done"]
    /\ UNCHANGED <<PROCESS, TASK, CLIENTS, procs, cpc, creq, cresp, cwait, tstream, nreq>>
    /\ UNCHANGED outside_manager

\* the script process exits, terminated or by itself, and its returncode
\* is set
process_exit(p) ==
    /\ procs[p].state = "running"
    /\ procs' = [procs EXCEPT ![p].state = "exited"]
    /\ UNCHANGED <<PROCESS, TASK, CLIENTS, cpc, creq, cresp, cwait, tpc, tstream, tev, nreq>>
    /\ UNCHANGED outside_manager

InitManager ==
    /\ ManagerStart
    /\ CompilerIdle
    /\ InspectorIdle
    /\ TreeIdle
    /\ ServerIdle

NextManager ==
    \/ \E c \in Clients :
         \/ server_register(c)
         \/ server_send(c)
         \/ server_close(c)
         \/ server_unregister(c)
         \/ project_run(c)
         \/ project_run_publish(c)
         \/ project_run_spawn(c)
         \/ project_stop(c)
         \/ project_stop_terminate(c)
         \/ project_stop_wait(c)
         \/ project_stop_return(c)
         \/ project_pause(c)
         \/ project_resume(c)
         \/ stdin_drain(c)
    \/ \E t \in Procs :
         \/ read_proc_stdout(t)
         \/ reader_loop(t)
         \/ reader_line(t)
         \/ reader_eof(t)
         \/ process_exit(t)

SpecManager == InitManager /\ [][NextManager]_vars

\* ----------------------------------------------------- helpers.server

Absent == "absent"

\* a value of the "request" key that cannot be a dictionary key (a JSON
\* array or object)
Unhashable == "[]"

\* the names EVENT_MAPPING has
EventNames == {"e1"}

\* EVENT_MAPPING[name]: the event class of a name
EVENT_MAPPING(name) == <<"Event", name>>

Ids == {1, 2}

\* a text message: json says whether json.loads accepts it, mapping whether
\* the decoded value is a JSON object; request and event are the values of
\* these keys, id the value of "id", valid whether from_dict validates it
Message(json, mapping, request, event, id, valid) ==
    [json |-> json, mapping |-> mapping, request |-> request, event |-> event,
     id |-> id, valid |-> valid]

Messages ==
    {Message(FALSE, FALSE, Absent, Absent, 1, FALSE),
     Message(TRUE, FALSE, Absent, Absent, 1, FALSE),
     Message(TRUE, TRUE, Absent, Absent, 1, FALSE),
     Message(TRUE, TRUE, Unhashable, Absent, 1, FALSE),
     Message(TRUE, TRUE, "bogus", Absent, 1, FALSE),
     Message(TRUE, TRUE, Absent, "bogus", 1, FALSE)}
    \cup {Message(TRUE, TRUE, n, Absent, i, v) :
            n \in {"runProject", "stopProject"}, i \in Ids, v \in BOOLEAN}
    \cup {Message(TRUE, TRUE, Absent, e, 1, v) : e \in EventNames, v \in BOOLEAN}

\* an rpc_dict keyed by request classes, as the signature of server declares
\* it, that registers a handler for runProject only
ClassKeyedDict ==
    [k \in {RPC_MAPPING("runProject").req_cls} |-> "project_run"]

\* an event_dict with a handler for every event of EventNames
ClassKeyedEvents == [k \in {EVENT_MAPPING(e) : e \in EventNames} |-> "handler"]

\* server, lines 84-142: what becomes of one message, test by test
Route(m, rd, ed) ==
    IF ~m.json THEN "JSONDecodeError"
    ELSE IF ~m.mapping THEN "TypeError"
    ELSE IF m.request # Absent THEN
        IF m.request = Unhashable THEN "TypeError"
        ELSE IF m.request \notin RpcNames THEN "KeyError"
        ELSE IF RPC_MAPPING(m.request).req_cls \notin DOMAIN rd THEN "ignored"
        ELSE IF ~m.valid THEN "ValidationError"
        ELSE "rpc"
    ELSE IF m.event # Absent THEN
        IF m.event \notin EventNames THEN "KeyError"
        ELSE IF EVENT_MAPPING(m.event) \notin DOMAIN ed THEN "ignored"
        ELSE IF ~m.valid THEN "ValidationError"
        ELSE "event"
    ELSE "unsupported"

\* the outcomes that are logged and followed by continue, or by the end of
\* the loop body
Logged == {"JSONDecodeError", "KeyError", "ignored", "ValidationError", "unsupported"}

\* async for message in client, line 81: the connection delivers m
Deliver(c, m) ==
    /\ conn[c] = "recv"
    /\ nmsg < MaxMsgs
    /\ nmsg' = nmsg + 1
    /\ received' = [received EXCEPT ![c] = Append(@, m)]

\* server, line 79, with manager.register: CLIENTS.add(websocket)
register(c) ==
    /\ conn[c] = "connect"
    /\ registered' = registered \cup {c}
    /\ conn' = [conn EXCEPT ![c] = "recv"]
    /\ UNCHANGED <<rpc_dict, event_dict, req, resp, raised, received, sent,
                   unregistered, nmsg>>
    /\ UNCHANGED outside_server

\* server: a message that is logged and passed over (lines 85-87, 93-95,
\* 97-99, 103-105, 125-127, 129-131, 135-137, 142)
message_skipped(c) ==
    /\ \E m \in Messages :
         /\ Route(m, rpc_dict, event_dict) \in Logged
         /\ Deliver(c, m)
    /\ UNCHANGED <<rpc_dict, event_dict, registered, conn, req, resp, raised, sent,
                   unregistered>>
    /\ UNCHANGED outside_server

\* server: a message whose decoded value makes line 89 ("request" in data)
\* or line 92 (RPC_MAPPING[data['request']]) raise TypeError, which no
\* except clause of server catches
message_raises(c) ==
    /\ \E m \in Messages :
         /\ Route(m, rpc_dict, event_dict) = "TypeError"
         /\ Deliver(c, m)
    /\ raised' = [raised EXCEPT ![c] = "TypeError"]
    /\ conn' = [conn EXCEPT ![c] = "finally"]
    /\ UNCHANGED <<rpc_dict, event_dict, registered, req, resp, sent, unregistered>>
    /\ UNCHANGED outside_server

\* server, lines 89-107: a request is built and its handler awaited
request_dispatched(c) ==
    /\ \E m \in Messages :
         /\ Route(m, rpc_dict, event_dict) = "rpc"
         /\ Deliver(c, m)
         /\ req' = [req EXCEPT ![c] = m]
    /\ conn' = [conn EXCEPT ![c] = "handler"]
    /\ UNCHANGED <<rpc_dict, event_dict, registered, resp, raised, sent, unregistered>>
    /\ UNCHANGED outside_server

\* server, lines 107-116: the handler returns None, a tuple or an instance
\* of resp_cls, and the response gets the id of the request
handler_returns(c) ==
    /\ conn[c] = "handler"
    /\ \E returned \in {"None", "tuple", "resp_cls"} :
         resp' = [resp EXCEPT ![c] = [cls |-> RPC_MAPPING(req[c].request).resp_cls,
                                      id |-> req[c].id,
                                      returned |-> returned]]
    /\ conn' = [conn EXCEPT ![c] = "send"]
    /\ UNCHANGED <<rpc_dict, event_dict, registered, req, raised, received, sent,
                   unregistered, nmsg>>
    /\ UNCHANGED outside_server

\* server, lines 107, 114 and 139: the handler raises, or returns a value of
\* another type and the assertion fails; neither is caught by server
handler_raises(c) ==
    /\ conn[c] \in {"handler", "event_handler"}
    /\ \E e \in {"Exception", "AssertionError"} :
         /\ e = "AssertionError" => conn[c] = "handler"
         /\ raised' = [raised EXCEPT ![c] = e]
    /\ conn' = [conn EXCEPT ![c] = "finally"]
    /\ UNCHANGED <<rpc_dict, event_dict, registered, req, resp, received, sent,
                   unregistered, nmsg>>
    /\ UNCHANGED outside_server

\* server, line 118: client.send(resp.to_json())
send_response(c) ==
    /\ conn[c] = "send"
    /\ sent' = [sent EXCEPT ![c] = Append(@, resp[c])]
    /\ conn' = [conn EXCEPT ![c] = "recv"]
    /\ req' = [req EXCEPT ![c] = None]
    /\ resp' = [resp EXCEPT ![c] = None]
    /\ UNCHANGED <<rpc_dict, event_dict, registered, raised, received, unregistered, nmsg>>
    /\ UNCHANGED outside_server

\* server, lines 121-139: an event is built and its handler awaited
event_dispatched(c) ==
    /\ \E m \in Messages :
         /\ Route(m, rpc_dict, event_dict) = "event"
         /\ Deliver(c, m)
    /\ conn' = [conn EXCEPT ![c] = "event_handler"]
    /\ UNCHANGED <<rpc_dict, event_dict, registered, req, resp, raised, sent, unregistered>>
    /\ UNCHANGED outside_server

\* server, line 139: the event handler returns; nothing is sent
event_handler_returns(c) ==
    /\ conn[c] = "event_handler"
    /\ conn' = [conn EXCEPT ![c] = "recv"]
    /\ UNCHANGED <<rpc_dict, event_dict, registered, req, resp, raised, received, sent,
                   unregistered, nmsg>>
    /\ UNCHANGED outside_server

\* server, lines 81 and 143-144: the connection is closed while the next
\* message is awaited
connection_closed(c) ==
    /\ conn[c] = "recv"
    /\ raised' = [raised EXCEPT ![c] = "ConnectionClosed"]
    /\ conn' = [conn EXCEPT ![c] = "finally"]
    /\ UNCHANGED <<rpc_dict, event_dict, registered, req, resp, received, sent,
                   unregistered, nmsg>>
    /\ UNCHANGED outside_server

\* server, lines 145-146, with manager.unregister: CLIENTS.remove(websocket)
unregister(c) ==
    /\ conn[c] = "finally"
    /\ registered' = registered \ {c}
    /\ unregistered' = [unregistered EXCEPT ![c] = @ + 1]
    /\ conn' = [conn EXCEPT ![c] = "closed"]
    /\ UNCHANGED <<rpc_dict, event_dict, req, resp, raised, received, sent, nmsg>>
    /\ UNCHANGED outside_server

\* server bound as manager.main binds it (RPC_DICT, no event_dict), or bound
\* to dictionaries keyed by classes as its signature declares them
InitServer ==
    /\ \/ rpc_dict = RPC_DICT /\ event_dict = NoEvents
       \/ rpc_dict = ClassKeyedDict /\ event_dict = ClassKeyedEvents
    /\ ServerStart
    /\ CompilerIdle
    /\ InspectorIdle
    /\ TreeIdle
    /\ ManagerStart

NextServer ==
    \E c \in Clients :
        \/ register(c)
        \/ message_skipped(c)
        \/ message_raises(c)
        \/ request_dispatched(c)
        \/ handler_returns(c)
        \/ handler_raises(c)
        \/ send_response(c)
        \/ event_dispatched(c)
        \/ event_handler_returns(c)
        \/ connection_closed(c)
        \/ unregister(c)

SpecServer == InitServer /\ [][NextServer]_vars

\* ------------------------------------------------------------ properties

\* injective sequences over the ids of acts that name every action once
Orders(acts) ==
    {p \in [1..Cardinality(DOMAIN acts) -> DOMAIN acts] :
        \A i, j \in DOMAIN p : p[i] = p[j] => i = j}

\* invariant 1: exactly one action has inputs[0] = FIRST and exactly one has
\* outputs[0] = LAST
Inv1(acts) == Cardinality(FirstIds(acts)) = 1 /\ Cardinality(LastIds(acts)) = 1

\* invariant 2: following outputs[0] from the FIRST action visits every action
\* exactly once and ends at the LAST action
Inv2(acts) ==
    \E p \in Orders(acts) :
        /\ Len(p) >= 1
        /\ p[1] \in FirstIds(acts)
        /\ p[Len(p)] \in LastIds(acts)
        /\ \A i \in 1..(Len(p) - 1) :
              Len(acts[p[i]].outputs) > 0 /\ acts[p[i]].outputs[1] = p[i + 1]

\* a single simple chain over all actions: every action has exactly one
\* input, naming what precedes it, and exactly one output, naming what follows
SimpleChain(acts) ==
    \E p \in Orders(acts) :
        /\ Len(p) >= 1
        /\ \A i \in 1..Len(p) :
              /\ acts[p[i]].inputs = << IF i = 1 THEN FIRST ELSE p[i - 1] >>
              /\ acts[p[i]].outputs = << IF i = Len(p) THEN LAST ELSE p[i + 1] >>

\* invariant 3: the object part of every action type is a scene instance
Inv3(acts, scn) ==
    \A a \in DOMAIN acts : \E i \in 1..Len(scn) : scn[i].id = acts[a].type.obj

\* invariant 4: scene ids map injectively to sanitized variable names
Inv4(scn) ==
    \A i, j \in 1..Len(scn) :
        fix_object_name(scn[i].id) = fix_object_name(scn[j].id) => i = j

ValidProject(acts, scn) ==
    Inv1(acts) /\ SimpleChain(acts) /\ Inv3(acts, scn) /\ Inv4(scn)

Finished(pc) == pc \in {"done", "raised"}

\* C1 (as claimed): for a project and scene satisfying invariants 1-4, the
\* Recoverer run on the text the Emitter produced succeeds and leaves every
\* action's inputs and outputs as they were before emission.
C1_RoundTrip ==
    (ValidProject(actions0, scene) /\ Finished(rpc))
        => (rpc = "done" /\ actions = actions0)

\* C2 (as claimed): whenever get_logic_from_source returns without error the
\* whole action cache satisfies invariants 1 and 2.
C2_InvariantsReestablished ==
    rpc = "done" => (Inv1(actions) /\ Inv2(actions))

\* C3: after get_logic_from_source succeeds on a loop body of n >= 1 call
\* statements a_0..a_(n-1), a_0 has inputs = [FIRST], a_(n-1) has
\* outputs = [LAST], and a_i has inputs = [a_(i-1)] and a_(i-1) has
\* outputs = [a_i]: every walked action has exactly one input and one output.
C3_LinksRebuilt ==
    (rpc = "done" /\ loop_len >= 1) =>
        /\ Len(loop) = loop_len
        /\ \A i \in 1..loop_len :
              /\ IsMethodCall(loop[i])
              /\ loop[i].attr \in DOMAIN actions
              /\ actions[loop[i].attr].inputs
                    = << IF i = 1 THEN FIRST ELSE loop[i - 1].attr >>
              /\ actions[loop[i].attr].outputs
                    = << IF i = loop_len THEN LAST ELSE loop[i + 1].attr >>

\* a walk of two statements succeeded over an action that had two outputs
C3_Witness ==
    /\ rpc = "done"
    /\ loop_len = 2
    /\ Len(actions0[loop[1].attr].outputs) = 2
    /\ actions0[loop[2].attr].inputs = <<>>

NoFirst(acts) == \A a \in DOMAIN acts : acts[a].inputs # <<FIRST>>

NoLast(acts) == \A a \in DOMAIN acts : acts[a].outputs # <<LAST>>

StartNotFound == Raise("GenerateSourceException", "'start' action not found.")

EndNotFound == Raise("GenerateSourceException", "'end' action not found.")

\* C4: for a project with no action having inputs = [FIRST], or none having
\* outputs = [LAST], program_src fails with "'start' action not found."
\* respectively "'end' action not found.", before any call statement is
\* appended and without returning any text.
C4_MissingStartOrEnd ==
    (epc # "idle" /\ rpc = "idle") =>
        /\ NoFirst(actions) =>
              (epc = "raised" /\ eerr = StartNotFound
                  /\ text = NoText /\ tree.loop = <<Pass>>)
        /\ (~NoFirst(actions) /\ NoLast(actions)) =>
              (epc = "raised" /\ eerr = EndNotFound
                  /\ text = NoText /\ tree.loop = <<Pass>>)

\* program_src failed for a project that has a start action but no end action
C4_Witness ==
    /\ epc = "raised"
    /\ eerr = EndNotFound
    /\ ~NoFirst(actions)
    /\ NoLast(actions)
    /\ Cardinality(DOMAIN actions) = 2

\* C5 (as claimed): a graph in which two different actions have
\* inputs = [FIRST] is rejected by the Emitter; no program is emitted for it.
C5_TwoFirstRejected ==
    (rpc = "idle"
        /\ \E a, b \in DOMAIN actions :
              a # b /\ actions[a].inputs = <<FIRST>> /\ actions[b].inputs = <<FIRST>>)
        => (epc # "done" /\ text = NoText)

\* C6 (as claimed): the Emitter emits text only when the chain from the FIRST
\* action visits every action exactly once and ends at the LAST action.
C6_ChainCoverage ==
    (epc = "done" /\ rpc = "idle") => Inv2(actions)

\* statements i < j of the loop body read so far name the same action id
DupPair(i, j) ==
    /\ i < j
    /\ j <= Len(loop)
    /\ IsMethodCall(loop[i])
    /\ IsMethodCall(loop[j])
    /\ loop[i].attr = loop[j].attr

\* the cache is the cache of before the call changed by statements 1..m of
\* the loop body and by nothing else
AppliedThrough(m) ==
    /\ \A i \in 1..m :
          /\ actions[loop[i].attr].inputs
                = << IF i = 1 THEN FIRST ELSE loop[i - 1].attr >>
          /\ actions[loop[i].attr].outputs
                = IF i < m THEN <<loop[i + 1].attr>>
                  ELSE IF m = loop_len THEN <<LAST>> ELSE <<>>
    /\ \A a \in DOMAIN actions :
          (\A i \in 1..m : loop[i].attr # a) => actions[a] = actions0[a]
    /\ DOMAIN actions = DOMAIN actions0

DuplicateAction == Raise("GenerateSourceException", "Duplicate action")

\* C7 (as claimed): text naming the same action id in statements i < j is
\* rejected with a duplicate-action error at statement j, and the only changes
\* in the cache are those of the statements up to and including statement i.
C7_MutatedThroughFirstOccurrence ==
    \A i, j \in 1..Len(loop) :
        DupPair(i, j) =>
            /\ rpc = "raised"
            /\ rerr = DuplicateAction
            /\ node_idx = j - 1
            /\ AppliedThrough(i)

\* C7 (amended): when statement j repeats the action id of statement i < j and
\* the walk reaches statement j, the walk is rejected there with a
\* duplicate-action error, and the cache carries the changes of all
\* statements before j.
C7_DuplicateRejected ==
    \A i, j \in 1..Len(loop) :
        DupPair(i, j) =>
            /\ rpc = "raised"
            /\ rerr = DuplicateAction
            /\ node_idx = j - 1
            /\ j = Len(loop)
            /\ AppliedThrough(j - 1)

\* a duplicate was rejected at the third statement, with another action
\* walked in between
C7_Witness ==
    /\ rpc = "raised"
    /\ rerr = DuplicateAction
    /\ Len(loop) = 3
    /\ DupPair(1, 3)
    /\ actions[loop[2].attr] # actions0[loop[2].attr]

\* C8 (as claimed): a statement whose action id is in the cache is rejected if
\* its variable is not the sanitized object id of the action's type or its
\* method differs, and accepted otherwise; a rejected statement leaves the
\* action's inputs and outputs as they were.
C8_MismatchDetection ==
    LET k == Len(loop)
    IN  (/\ rpc # "idle"
         /\ k >= 1
         /\ IsMethodCall(loop[k])
         /\ loop[k].attr \in DOMAIN actions
         /\ \A i \in 1..(k - 1) : loop[i].attr # loop[k].attr)
        => LET act == actions[loop[k].attr]
               rejected == rpc = "raised" /\ node_idx = k - 1
               mismatch == \/ loop[k].instance # fix_object_name(act.type.obj)
                           \/ loop[k].method # act.type.method
           IN  /\ rejected <=> mismatch
               /\ rejected => act = actions0[loop[k].attr]

\* C9 (as claimed): when get_logic_from_source raises at statement k the
\* cache differs from its state before the call only by the effects of
\* statements 0..k-1, and the action named by the failing statement has its
\* inputs and outputs unchanged.
C9_FailingActionUnchanged ==
    rpc = "raised" =>
        /\ AppliedThrough(node_idx)
        /\ LET node == loop[node_idx + 1]
           IN  (IsMethodCall(node) /\ node.attr \in DOMAIN actions)
                  => actions[node.attr] = actions0[node.attr]

\* C9 (amended): when get_logic_from_source raises at statement k the cache
\* differs from its state before the call only by the effects of statements
\* 0..k-1; the action named by the failing statement is unchanged unless an
\* earlier statement names it too (the duplicate-action error).
C9_PartialMutation ==
    rpc = "raised" =>
        /\ Len(loop) = node_idx + 1
        /\ AppliedThrough(node_idx)
        /\ LET node == loop[node_idx + 1]
           IN  (/\ IsMethodCall(node)
                /\ node.attr \in DOMAIN actions
                /\ \A i \in 1..node_idx : loop[i].attr # node.attr)
                  => actions[node.attr] = actions0[node.attr]

\* the walk raised a type mismatch at its second statement, on an action
\* that had inputs and outputs
C9_Witness ==
    /\ rpc = "raised"
    /\ node_idx = 1
    /\ rerr.msg = "Action type does not correspond to source"
    /\ actions0[loop[2].attr].outputs # <<>>
    /\ actions[loop[1].attr] # actions0[loop[1].attr]

\* C10: when the Emitter returns text, its loop body is exactly the calls
\* <sanitized object id>.<method>(**res.<id>) of the chain that starts at a
\* FIRST action, follows outputs[0] and ends at a LAST action, in chain
\* order, each action called once and no placeholder pass left.
C10_EmittedLoopBody ==
    epc = "done" =>
        LET lines == text.lines
            n == Len(lines)
        IN  /\ n >= 1
            /\ \A i \in 1..n :
                  /\ IsMethodCall(lines[i])
                  /\ lines[i].attr \in DOMAIN actions0
                  /\ lines[i].instance = fix_object_name(actions0[lines[i].attr].type.obj)
                  /\ lines[i].method = actions0[lines[i].attr].type.method
            /\ lines[1].attr \in FirstIds(actions0)
            /\ lines[n].attr \in LastIds(actions0)
            /\ \A i \in 1..(n - 1) : actions0[lines[i].attr].outputs[1] = lines[i + 1].attr
            /\ \A i, j \in 1..n : lines[i].attr = lines[j].attr => i = j

\* text with a loop body of two calls was emitted
C10_Witness ==
    /\ epc = "done"
    /\ rpc = "idle"
    /\ Len(text.lines) = 2
    /\ text.lines[1].attr # text.lines[2].attr

\* a step of program_src or of add_logic_to_loop
EmitterStep == evars' # evars

\* C11: the Emitter does not mutate its input.  No step of program_src or of
\* the chain walk of add_logic_to_loop, whether it goes on, returns or
\* raises, changes the project's actions or the scene's object list.
C11_EmitterKeepsInput ==
    [][EmitterStep => (actions' = actions /\ scene' = scene)]_vars

\* program_src raised in the middle of the chain walk, after appending a
\* call statement, and the project is as it was when program_src was called
C11_Witness ==
    /\ epc = "raised"
    /\ eerr.exc \in {"IndexError", "KeyError"}
    /\ IsMethodCall(tree.loop[1])
    /\ actions = actions0
    /\ \E a \in DOMAIN actions : actions[a].outputs # <<>>

\* number of top-level class definitions of an object-type source
ClassCount(src) == Cardinality({i \in 1..Len(src) : src[i].node = "ClassDef"})

\* the Inspector raised one of the two errors of object_cls_def
ClassDefError ==
    /\ ipc = "raised"
    /\ ierr.msg \in {"No class definition!", "Multiple class definition!"}

\* C12 (as claimed): object_cls_def, called by object_type_info and by
\* get_object_actions, raises its error when the source has zero top-level
\* class definitions and when it has more than one, and returns a class
\* definition only when the source has exactly one.
C12_ExactlyOneClass ==
    ipc # "idle" => (ClassDefError <=> ClassCount(source) # 1)

\* the names of the methods read that carry the @action marker
MarkedNames == {defs[i].name : i \in {j \in 1..Len(defs) : HasActionDecorator(defs[j])}}

\* the names in the catalog get_object_actions returned
CatalogNames == {ret[i].name : i \in 1..Len(ret)}

\* the names <name>.__action__ = ... is assigned for in the inspected class
MetadataNames ==
    LET a == object_cls_def(source).assigns
    IN  {a[i].target : i \in {j \in 1..Len(a) : a[j].attr = "__action__"}}

\* C13 (as claimed): when get_object_actions returns, there was no mismatch
\* in either direction (every method with the @action marker has a metadata
\* assignment, and every metadata assignment names a method with the marker)
\* and the names in the catalog are exactly the names in the metadata table.
C13_MarkerMetadataAgreement ==
    ipc = "done" =>
        /\ MarkedNames \subseteq MetadataNames
        /\ MetadataNames \subseteq MarkedNames
        /\ CatalogNames = MetadataNames

\* the parameters of a method other than its receiver, in declaration
\* order: the positional ones after self, then the keyword-only ones
NonReceiverParams(node) == SubSeq(node.args, 2, Len(node.args)) \o node.kwonlyargs

\* the methods read that carry the @action marker, in declaration order
MarkedDefs == SelectSeq(defs, HasActionDecorator)

\* the argument list an ObjectAction has for the parameters ps
ArgsOf(ps) == [j \in 1..Len(ps) |-> [name |-> ps[j].arg, type |-> ps[j].annotation]]

\* C14 (as claimed): get_object_actions returns only when every non-receiver
\* parameter of every action method has an explicit type, and then the
\* catalog has one ObjectAction per action method, in method declaration
\* order, whose argument list has one entry per non-receiver parameter, in
\* declaration order.
C14_AnnotationRequirement ==
    ipc = "done" =>
        /\ \A i \in 1..Len(MarkedDefs) :
              \A j \in 1..Len(NonReceiverParams(MarkedDefs[i])) :
                  NonReceiverParams(MarkedDefs[i])[j].annotation # None
        /\ Len(ret) = Len(MarkedDefs)
        /\ \A i \in 1..Len(ret) :
              /\ ret[i].name = MarkedDefs[i].name
              /\ ret[i].action_args = ArgsOf(NonReceiverParams(MarkedDefs[i]))

\* how many times the tree t imports symbol from module
ImportCount(t, module, symbol) ==
    Cardinality({p \in (1..Len(t.imports)) \X (1..MaxCalls) :
                    /\ t.imports[p[1]].module = module
                    /\ p[2] <= Len(t.imports[p[1]].names)
                    /\ t.imports[p[1]].names[p[2]] = symbol})

\* the import statements of t for module
ImportsOf(t, module) == {i \in 1..Len(t.imports) : t.imports[i].module = module}

Bindings(t) == {i \in 1..Len(t.main) : t.main[i].node \in {"Assign", "AnnAssign"}}

\* main binds no variable name to two different types
OneTypePerName(t) ==
    \A i, j \in Bindings(t) : t.main[i].target = t.main[j].target => t.main[i].cls = t.main[j].cls

\* the variable name and the type the last call binds
BoundName == IF ucall.op = "add_cls_inst" THEN ucall.name ELSE fix_object_name(ucall.object_id)

\* C16 (as claimed): after any sequence of add_import, add_cls_inst and
\* object_instance_from_res calls main never contains two bindings of the
\* same variable name to different types; a call that would create one
\* raises and leaves the tree unchanged, and a repeated add_cls_inst with
\* the same name and type adds no second binding.
C16_NoSecondBinding ==
    /\ OneTypePerName(utree)
    /\ (ucall.op \in {"add_cls_inst", "object_instance_from_res"}
          /\ \E i \in Bindings(uprev) :
                uprev.main[i].target = BoundName /\ uprev.main[i].cls # ucall.cls)
         => (ures # NoErr /\ utree = uprev)
    /\ (ucall.op = "add_cls_inst"
          /\ \E i \in Bindings(uprev) :
                uprev.main[i].target = ucall.name /\ uprev.main[i].cls = ucall.cls)
         => utree = uprev

\* the instance bindings <name>: <type> = res.objects[<key>] of a program
InstanceBindings(prog) == {i \in 1..Len(prog.main) : prog.main[i].node = "AnnAssign"}

\* C17 (as claimed): in every program the Emitter produces there is exactly
\* one instance binding per scene object, bound to the sanitized form of its
\* id, annotated with its type and keyed in res.objects by its id, and no two
\* scene objects are bound to the same variable name, nor one to the name res
\* of the resource accessor.
C17_InjectiveVariableNames ==
    epc = "done" =>
        LET b == InstanceBindings(text)
        IN  /\ Cardinality(b) = Len(scene)
            /\ \A k \in 1..Len(scene) :
                  \E i \in b :
                      /\ text.main[i].key = scene[k].id
                      /\ text.main[i].target = fix_object_name(scene[k].id)
                      /\ text.main[i].cls = scene[k].type
                      /\ \A j \in b : text.main[j].key = scene[k].id => j = i
            /\ \A i, j \in b : text.main[i].target = text.main[j].target => i = j
            /\ \A i \in b : text.main[i].target # Res

\* the script processes that are running
Running == {p \in Procs : procs[p].state = "running"}

CallsAppended == Cardinality({i \in 1..Len(tree.loop) : IsMethodCall(tree.loop[i])})

\* C19 (as claimed): for a project with a FIRST action and a LAST action the
\* chain walk of add_logic_to_loop appends at most as many call statements
\* as the project has actions before it finishes, also when the outputs[0]
\* links form a cycle that never reaches the LAST action.
C19_EmitterTerminates ==
    (FirstIds(actions) # {} /\ LastIds(actions) # {})
        => CallsAppended <= Cardinality(DOMAIN actions)

\* the handler of client c has returned and its response is about to be sent
Returned(c, kind) == cpc[c] = "send" /\ creq[c].kind = kind

Registered(n) == \E k \in DOMAIN rpc_dict : k[2] = n

\* a message that parses as a request of a known type that is registered in
\* rpc_dict and validates
Answerable(m) ==
    /\ m.json
    /\ m.mapping
    /\ m.request \in RpcNames
    /\ Registered(m.request)
    /\ m.valid

\* the requests of a connection that are to be answered, in order
RECURSIVE Due(_)
Due(msgs) ==
    IF msgs = <<>> THEN <<>>
    ELSE (IF Answerable(Head(msgs)) THEN <<Head(msgs)>> ELSE <<>>) \o Due(Tail(msgs))

\* the server coroutine of c is between two messages, or past the last one
BetweenMessages(c) == conn[c] \in {"recv", "finally", "closed"}

\* C21 (as claimed): on every connection the responses sent are exactly the
\* responses to the received messages that parse as a request of a known,
\* registered type and validate, one each, in order, on the connection of
\* the request and with its id; no message ends the connection, which ends
\* by ConnectionClosed only; the client is registered before its first
\* message is handled and unregistered exactly once when the connection has
\* ended.
C21_OneResponsePerRequest ==
    \A c \in Clients :
        /\ BetweenMessages(c) =>
              /\ Len(sent[c]) = Len(Due(received[c]))
              /\ \A i \in 1..Len(sent[c]) :
                    /\ sent[c][i].id = Due(received[c])[i].id
                    /\ sent[c][i].cls = RPC_MAPPING(Due(received[c])[i].request).resp_cls
        /\ raised[c] \in {None, "ConnectionClosed"}
        /\ received[c] # <<>> => conn[c] # "connect"
        /\ conn[c] \in {"recv", "handler", "send", "event_handler", "finally"}
              => c \in registered
        /\ unregistered[c] = (IF conn[c] = "closed" THEN 1 ELSE 0)
        /\ conn[c] = "closed" => c \notin registered

====
